---- MODULE Spec2Model ----
(***************************************************************************)
(* Model of the nested-comments application (meleshyn/comments-spa):       *)
(*   - the API's CommentsService: createComment and the keyset-paginated   *)
(*     findComments (apps/api/src/comments/comments.service.ts),           *)
(*   - the web client's optimistic cache protocol, useAddComment           *)
(*     (apps/web/src/lib/queries.ts).                                      *)
(*                                                                         *)
(* The specifications share the variables:                                 *)
(*   Spec      one createComment request at a time, step by step,          *)
(*   TextSpec  createComment over the texts a request may carry,           *)
(*   PageSpec  comment creation interleaved with paginated reads,          *)
(*   ReadSpec  comment creation, then a page request at any cursor,        *)
(*   AttachSpec comment creation with files, then a page request,          *)
(*   CacheSpec the client's query cache under concurrent submissions,      *)
(*   FetchSpec the client's query cache with fetches in flight.            *)
(***************************************************************************)
EXTENDS Integers, Sequences, FiniteSets, TLC

VARIABLES
    comments,     \* rows of table comments
    attachments,  \* rows of table attachments
    blobs,        \* objects stored in the bucket
    now,          \* the database clock, in timestamp ticks
    req,          \* the createComment request being served
    pager,        \* a client paging through findComments
    cache,        \* the web client's query cache
    subs,         \* the web client's submissions (mutations)
    fetches       \* the fetch status of the queries of the cache

serverVars == <<comments, attachments, blobs, now, req>>
clientVars == <<cache, subs, fetches>>
vars == <<comments, attachments, blobs, now, req, pager, cache, subs, fetches>>

(***************************************************************************)
(* Bounds of the model.                                                    *)
(***************************************************************************)
MaxComments == 2   \* rows of table comments
MaxMs == 1         \* last millisecond of the database clock
MaxSubMs == 1      \* timestamp ticks below one millisecond (0..MaxSubMs)
MaxLimit == 2      \* largest page limit requested
MaxPages == 3      \* requests of one paging session
MaxFiles == 1      \* files of one creation request
MaxRequests == 1   \* creation requests served step by step
MaxAttachments == 2  \* files of one comment created in AttachSpec
MaxTextLen == 2    \* pieces of the text of a creation request in TextSpec

\* parentId: createCommentDto.parentId || null; parentId undefined for roots
NULL == 0

\* uuid('id').defaultRandom(): ids the database generates
UUIDs == 1 .. MaxComments
\* a well-formed uuid that gen_random_uuid never produces
DanglingId == MaxComments + 1

\* ticks per millisecond: timestamptz keeps more digits than a JS Date
TicksPerMs == MaxSubMs + 1
MaxTime == MaxMs * TicksPerMs + MaxSubMs

\* Math.max
Max(a, b) == IF a > b THEN a ELSE b

SortBys == {"userName", "email", "createdAt"}
SortOrders == {"asc", "desc"}
Limits == 1 .. MaxLimit

(***************************************************************************)
(* The text of a comment, as a sequence of pieces:                         *)
(*   "t"            a character of plain text,                             *)
(*   "<i>"          a tag of ALLOWED_TAGS,                                 *)
(*   "<img>"        markup that is not allowed and holds no text, such as  *)
(*                  <img src=x> or <script>alert(1)</script>,              *)
(*   "&lt;img&gt;"  the same markup written with HTML entities.            *)
(***************************************************************************)
TextPieces == {"t", "<i>", "<img>", "&lt;img&gt;"}

\* texts a client may send
RawTexts == UNION { [1 .. n -> TextPieces] : n \in 0 .. MaxTextLen }

\* a text of plain characters
PlainText == <<"t">>

\* createCommentSchema: text: z.string().min(1)
SchemaAcceptsText(rawText) == Len(rawText) >= 1

\* decode(rawText) of html-entities
decode(rawText) ==
    [i \in 1 .. Len(rawText) |->
        IF rawText[i] = "&lt;img&gt;" THEN "<img>" ELSE rawText[i]]

\* dompurify.sanitize(text, {ALLOWED_TAGS: ['a','code','i','strong'], ALLOWED_ATTR: ['href']})
DisallowedMarkup(piece) == piece \notin {"t", "<i>"}
sanitize(text) == SelectSeq(text, LAMBDA piece : ~DisallowedMarkup(piece))

sanitizeCommentText(rawText) == sanitize(decode(rawText))

\* userName / email of a creation request (values compared as the strings
\* are), with a text of plain characters
Authors ==
    { [userName |-> 1, email |-> 2, text |-> PlainText],
      [userName |-> 2, email |-> 1, text |-> PlainText] }

\* the creation requests of one author over the texts a client may send
AuthorTexts ==
    { [userName |-> 1, email |-> 2, text |-> rawText] : rawText \in RawTexts }

(***************************************************************************)
(* The database columns as the ORM hands them to JavaScript.               *)
(***************************************************************************)

\* timestamp('created_at', { withTimezone: true }) in the default 'date' mode:
\* a selected value is a JS Date, which keeps milliseconds only
JSDate(t) == t - (t % TicksPerMs)

\* cursorComment[0]?.[sortBy]: the selected column of the cursor row
SelectField(c, sortBy) ==
    IF sortBy = "createdAt" THEN JSDate(c.createdAt) ELSE c[sortBy]

(***************************************************************************)
(* findComments                                                            *)
(***************************************************************************)

\* no cursor condition (buildCursorCondition returning null, or no cursor)
NoCondition == [found |-> FALSE, cursorValue |-> NULL, cursorId |-> NULL]

\* buildCursorCondition that builds the predicate also when the cursor row is
\* missing, from the undefined cursorValue and cursorId
buildCursorConditionUnchecked(db, query) ==
    LET cursorComment == {c \in db : c.id = query.cursor}
    IN  IF cursorComment # {}
        THEN LET c == CHOOSE c \in cursorComment : TRUE
             IN  [ found |-> TRUE, cursorValue |-> SelectField(c, query.sortBy),
                   cursorId |-> c.id ]
        ELSE [found |-> TRUE, cursorValue |-> NULL, cursorId |-> NULL]

\* the SQL cursor predicate built by buildCursorCondition from the cursor row
buildCursorCondition(db, query) ==
    LET cursorComment == {c \in db : c.id = query.cursor}
    IN  IF cursorComment # {}
        THEN LET c == CHOOSE c \in cursorComment : TRUE
             IN  [ found |-> TRUE, cursorValue |-> SelectField(c, query.sortBy),
                   cursorId |-> c.id ]
        ELSE NoCondition

\* buildWhereConditions taking the scope from the cursor row when there is one
buildWhereConditionsCursorScope(db, query, parentId) ==
    [ parentId |->
          IF \E c \in db : c.id = query.cursor
          THEN (CHOOSE c \in db : c.id = query.cursor).parentId
          ELSE parentId,
      cursorCondition |->
          IF query.cursor # NULL THEN buildCursorCondition(db, query)
          ELSE NoCondition ]

\* whereConditions: the scope condition plus the optional cursor condition
buildWhereConditions(db, query, parentId) ==
    [ parentId |-> parentId,
      cursorCondition |->
          IF query.cursor # NULL THEN buildCursorCondition(db, query)
          ELSE NoCondition ]

\* and(...whereConditions) evaluated on row c
Matches(c, query, where) ==
    /\ c.parentId = where.parentId
    /\ \/ ~where.cursorCondition.found
       \/ LET v  == c[query.sortBy]
              cv == where.cursorCondition.cursorValue
              ci == where.cursorCondition.cursorId
          IN  IF query.sortOrder = "desc"
              THEN v < cv \/ (v = cv /\ c.id < ci)
              ELSE v > cv \/ (v = cv /\ c.id > ci)

\* orderBy(orderDirection(comments[sortBy]), asc(comments.id))
PrecedesIdAsc(a, b, sortBy, sortOrder) ==
    IF sortOrder = "desc"
    THEN a[sortBy] > b[sortBy] \/ (a[sortBy] = b[sortBy] /\ a.id < b.id)
    ELSE a[sortBy] < b[sortBy] \/ (a[sortBy] = b[sortBy] /\ a.id < b.id)

\* orderBy(orderDirection(comments[sortBy]), orderDirection(comments.id))
Precedes(a, b, sortBy, sortOrder) ==
    IF sortOrder = "desc"
    THEN a[sortBy] > b[sortBy] \/ (a[sortBy] = b[sortBy] /\ a.id > b.id)
    ELSE a[sortBy] < b[sortBy] \/ (a[sortBy] = b[sortBy] /\ a.id < b.id)

RECURSIVE OrderBy(_, _, _)
OrderBy(S, sortBy, sortOrder) ==
    IF S = {} THEN <<>>
    ELSE LET first == CHOOSE x \in S :
                         \A y \in S \ {x} : Precedes(x, y, sortBy, sortOrder)
         IN  <<first>> \o OrderBy(S \ {first}, sortBy, sortOrder)

\* .limit(n)
Take(s, n) == IF Len(s) > n THEN SubSeq(s, 1, n) ELSE s

\* the attachment columns of a joined row that found no attachment
NoAttachment == [id |-> NULL, commentId |-> NULL, fileUrl |-> NULL, fileType |-> "none"]

\* from(comments).innerJoin(attachments, ...): comments without attachment lost
innerJoin(db, atts) ==
    { j \in [comment : db, attachment : atts] : j.attachment.commentId = j.comment.id }

\* from(comments).leftJoin(attachments, eq(comments.id, attachments.commentId))
leftJoin(db, atts) ==
    { j \in [comment : db, attachment : atts] : j.attachment.commentId = j.comment.id }
    \cup
    { [comment |-> c, attachment |-> NoAttachment] :
        c \in {c \in db : ~ \E a \in atts : a.commentId = c.id} }

\* the subquery without its alias: FROM comments WHERE comments.parent_id =
\* comments.id, where both columns are the subquery's own
RepliesCountNoAlias(c, db) ==
    Cardinality({replies \in db : replies.parentId = replies.id})

\* (SELECT COUNT(*)::int FROM comments AS replies WHERE replies.parent_id = comments.id):
\* comments.id is the id of the outer row c
RepliesCount(c, db) ==
    Cardinality({replies \in db : replies.parentId = c.id})

\* COALESCE(JSON_AGG(JSON_BUILD_OBJECT(...)) FILTER (WHERE attachments.id IS NOT NULL), '[]')
\* over the joined rows of the group of comment c
JsonAgg(joined, c) ==
    { j.attachment : j \in {j \in joined : j.comment = c /\ j.attachment.id # NULL} }

\* one selected row of the group of comment c: the columns, the correlated
\* repliesCount and the aggregated attachments
SelectRow(c, db, atts) ==
    LET joined == leftJoin(db, atts)
    IN  [ id |-> c.id, userName |-> c.userName, email |-> c.email,
          text |-> c.text,
          parentId |-> c.parentId, createdAt |-> JSDate(c.createdAt),
          repliesCount |-> RepliesCount(c, db),
          attachments |-> JsonAgg(joined, c) ]

executeCommentsQuery(db, atts, query, where) ==
    LET joined   == {j \in leftJoin(db, atts) : Matches(j.comment, query, where)}
        matching == {j.comment : j \in joined}
        ordered  == OrderBy(matching, query.sortBy, query.sortOrder)
        limited  == Take(ordered, query.limit + 1)
    IN  [i \in 1 .. Len(limited) |-> SelectRow(limited[i], db, atts)]

\* processPaginationResults with hasNextPage = results.length >= limit
processPaginationResultsGe(results, limit) ==
    LET hasNextPage == Len(results) >= limit
        data == IF hasNextPage THEN SubSeq(results, 1, limit) ELSE results
        nextCursor == IF hasNextPage /\ Len(data) > 0
                      THEN data[Len(data)].id ELSE NULL
    IN  [data |-> data, nextCursor |-> nextCursor]

processPaginationResults(results, limit) ==
    LET hasNextPage == Len(results) > limit
        data == IF hasNextPage THEN SubSeq(results, 1, limit) ELSE results
        nextCursor == IF hasNextPage /\ Len(data) > 0
                      THEN data[Len(data)].id ELSE NULL
    IN  [data |-> data, nextCursor |-> nextCursor]

findComments(db, atts, query, parentId) ==
    LET whereConditions == buildWhereConditions(db, query, parentId)
        results == executeCommentsQuery(db, atts, query, whereConditions)
    IN  processPaginationResults(results, query.limit)

(***************************************************************************)
(* The insert of one comment row: id and created_at are the column         *)
(* defaults, the other columns come from the request.                      *)
(***************************************************************************)
FreshIds == UUIDs \ {c.id : c \in comments}

NewRow(id, author, parentId, t) ==
    [ id |-> id, userName |-> author.userName, email |-> author.email,
      text |-> sanitizeCommentText(author.text),
      parentId |-> parentId, createdAt |-> t ]

\* parentId values a client can send: none, a comment it has seen, or a
\* well-formed uuid naming no comment
ParentChoices == {NULL, DanglingId} \cup {c.id : c \in comments}

(***************************************************************************)
(* Paging: a client requests a first page and follows nextCursor           *)
(* (useRootComments / useCommentReplies: getNextPageParam).                *)
(***************************************************************************)
NoPager == [ active |-> FALSE, sortBy |-> "createdAt", sortOrder |-> "desc",
             limit |-> 1, parentId |-> NULL, pages |-> <<>> ]

Query(p, cursor) ==
    [ sortBy |-> p.sortBy, sortOrder |-> p.sortOrder, limit |-> p.limit,
      cursor |-> cursor ]

\* the selects findComments sends to the database: the page query of
\* executeCommentsQuery and, when the request has a cursor, the lookup of the
\* cursor row in buildCursorCondition
QueriesIssued(query) ==
    (IF query.cursor # NULL THEN 1 ELSE 0) + 1

\* the page served now for the session p from cursor, with what was queried
ServePage(p, cursor) ==
    LET query == Query(p, cursor)
        where == buildWhereConditions(comments, query, p.parentId)
        results == executeCommentsQuery(comments, attachments, query, where)
        page == processPaginationResults(results, query.limit)
    IN  [ cursor |-> cursor, db |-> comments, atts |-> attachments,
          queries |-> QueriesIssued(query), results |-> results,
          data |-> page.data, nextCursor |-> page.nextCursor ]

FetchFirstPage(sortBy, sortOrder, limit, parentId) ==
    /\ ~pager.active
    /\ LET p == [ active |-> TRUE, sortBy |-> sortBy, sortOrder |-> sortOrder,
                  limit |-> limit, parentId |-> parentId, pages |-> <<>> ]
       IN  pager' = [p EXCEPT !.pages = <<ServePage(p, NULL)>>]
    /\ UNCHANGED <<serverVars, clientVars>>

FetchNextPage ==
    /\ pager.active
    /\ Len(pager.pages) < MaxPages
    /\ pager.pages[Len(pager.pages)].nextCursor # NULL
    /\ pager' = [pager EXCEPT !.pages =
                    Append(@, ServePage(pager, pager.pages[Len(pager.pages)].nextCursor))]
    /\ UNCHANGED <<serverVars, clientVars>>

\* GET /comments and GET /comments/:id/replies with the cursor the client
\* sends: any well-formed id
GetComments(sortBy, sortOrder, limit, parentId, cursor) ==
    /\ ~pager.active
    /\ LET p == [ active |-> TRUE, sortBy |-> sortBy, sortOrder |-> sortOrder,
                  limit |-> limit, parentId |-> parentId, pages |-> <<>> ]
       IN  pager' = [p EXCEPT !.pages = <<ServePage(p, cursor)>>]
    /\ UNCHANGED <<serverVars, clientVars>>

\* a createComment request without files that passes the CAPTCHA: its one
\* effect is the insert of the comment row
CreateCommentNoFiles(author, parentId) ==
    /\ Cardinality(comments) < MaxComments
    /\ \E id \in FreshIds, t \in {now, now + 1} :
          /\ t <= MaxTime
          /\ now' = t
          /\ comments' = comments \cup {NewRow(id, author, parentId, t)}
    /\ UNCHANGED <<attachments, blobs, req, pager, clientVars>>

\* the Attachment rows of a comment created with n files
AttachmentRows(commentId, n) ==
    { [ id |-> commentId * (MaxAttachments + 1) + i, commentId |-> commentId,
        fileUrl |-> commentId * (MaxAttachments + 1) + i, fileType |-> "image" ]
      : i \in 1 .. n }

\* a createComment request with n image files in which every step succeeds:
\* the comment row and its Attachment rows.  (Between its two inserts the
\* tables are as CreateCommentNoFiles leaves them.)
CreateCommentWithFiles(author, parentId, n) ==
    /\ Cardinality(comments) < MaxComments
    /\ \E id \in FreshIds, t \in {now, now + 1} :
          /\ t <= MaxTime
          /\ now' = t
          /\ comments' = comments \cup {NewRow(id, author, parentId, t)}
          /\ attachments' = attachments \cup AttachmentRows(id, n)
    /\ UNCHANGED <<blobs, req, pager, clientVars>>

(***************************************************************************)
(* createComment, step by step: POST /comments                             *)
(***************************************************************************)

\* 100 * 1024: the size limit of a text attachment, in bytes
TextFileLimit == 102400

\* multerOptions.fileFilter: allowedMimeTypes
allowedMimeTypes ==
    {"image/jpeg", "image/jpg", "image/png", "image/gif", "text/plain"}

\* files a client may attach
FileChoices ==
    { [mimetype |-> "image/png", size |-> TextFileLimit + 1],
      [mimetype |-> "text/plain", size |-> TextFileLimit],
      [mimetype |-> "text/plain", size |-> TextFileLimit + 1],
      [mimetype |-> "application/pdf", size |-> TextFileLimit] }

FileLists == UNION { [1 .. n -> FileChoices] : n \in 0 .. MaxFiles }

\* StorageService.getFileType
getFileType(file) ==
    IF file.mimetype \in {"image/jpeg", "image/jpg", "image/png", "image/gif"}
    THEN "image"
    ELSE IF file.mimetype = "text/plain" THEN "text" ELSE "unsupported"

\* processAndUploadFile throws before uploading: unsupported type, or a text
\* file above the limit
MustThrow(file) ==
    \/ getFileType(file) = "unsupported"
    \/ getFileType(file) = "text" /\ file.size > TextFileLimit

Idle == [ pc |-> "idle", n |-> 0,
          author |-> [userName |-> 1, email |-> 2, text |-> PlainText],
          parentId |-> NULL, files |-> <<>>, commentId |-> NULL,
          urls |-> <<>>, result |-> "none", valid |-> TRUE, captcha |-> "none",
          before |-> [comments |-> {}, attachments |-> {}, blobs |-> {}] ]

\* the request reaches the server: the files interceptor (multer fileFilter)
\* and the validation pipe run before the handler
Receive(author, parentId, files, valid) ==
    /\ req.pc \in {"idle", "done", "failed", "rejected"}
    /\ req.n < MaxRequests
    /\ LET accepted == /\ \A i \in 1 .. Len(files) :
                             files[i].mimetype \in allowedMimeTypes
                       /\ valid
                       /\ SchemaAcceptsText(author.text)
       IN  req' = [ Idle EXCEPT
                      !.n = req.n + 1,
                      !.pc = IF accepted THEN "captcha" ELSE "rejected",
                      !.result = IF accepted THEN "none" ELSE "BadRequest",
                      !.valid = valid,
                      !.author = author, !.parentId = parentId, !.files = files,
                      !.before = [comments |-> comments,
                                  attachments |-> attachments, blobs |-> blobs] ]
    /\ UNCHANGED <<comments, attachments, blobs, now, pager, clientVars>>

\* ValidateCaptcha with the verification result ignored
ValidateCaptchaIgnored(outcome) ==
    /\ req.pc = "captcha"
    /\ req' = [req EXCEPT !.pc = "insert", !.captcha = outcome]
    /\ UNCHANGED <<comments, attachments, blobs, now, pager, clientVars>>

\* await this.recaptchaService.validate(captchaToken): throws unless the
\* verification answers success
ValidateCaptcha(outcome) ==
    /\ req.pc = "captcha"
    /\ req' = IF outcome = "success"
              THEN [req EXCEPT !.pc = "insert", !.captcha = outcome]
              ELSE [req EXCEPT !.pc = "failed", !.captcha = outcome,
                               !.result = "BadRequest"]
    /\ UNCHANGED <<comments, attachments, blobs, now, pager, clientVars>>

\* insert(comments).values(newComment).returning()
InsertComment(ok) ==
    /\ req.pc = "insert"
    /\ IF ok /\ Cardinality(comments) < MaxComments
       THEN \E id \in FreshIds, t \in {now, now + 1} :
               /\ t <= MaxTime
               /\ now' = t
               /\ comments' = comments \cup
                      {NewRow(id, req.author, req.parentId, t)}
               /\ req' = [req EXCEPT
                            !.commentId = id,
                            !.pc = IF Len(req.files) > 0 THEN "upload" ELSE "done",
                            !.result = IF Len(req.files) > 0 THEN "none"
                                       ELSE "Created"]
       ELSE /\ req' = [req EXCEPT !.pc = "failed", !.result = "Error"]
            /\ UNCHANGED <<comments, now>>
    /\ UNCHANGED <<attachments, blobs, pager, clientVars>>

\* names of the objects a request writes: unique per upload
Url(commentId, i) == commentId * (MaxFiles + 1) + i

\* UploadFiles that waits for every upload to settle and goes on whatever the
\* outcomes were
UploadFilesAllSettled(stored) ==
    /\ req.pc = "upload"
    /\ stored \subseteq 1 .. Len(req.files)
    /\ \A i \in stored : ~MustThrow(req.files[i])
    /\ blobs' = blobs \cup {Url(req.commentId, i) : i \in stored}
    /\ req' = [req EXCEPT !.pc = "attach",
                  !.urls = [i \in 1 .. Len(req.files) |-> Url(req.commentId, i)]]
    /\ UNCHANGED <<comments, attachments, now, pager, clientVars>>

\* storageService.uploadFiles(files): Promise.all of processAndUploadFile;
\* stored is the set of files whose upload finished
UploadFiles(stored) ==
    /\ req.pc = "upload"
    /\ stored \subseteq 1 .. Len(req.files)
    /\ \A i \in stored : ~MustThrow(req.files[i])
    /\ blobs' = blobs \cup {Url(req.commentId, i) : i \in stored}
    /\ req' = IF stored = 1 .. Len(req.files)
              THEN [req EXCEPT !.pc = "attach",
                       !.urls = [i \in 1 .. Len(req.files) |-> Url(req.commentId, i)]]
              ELSE [req EXCEPT !.pc = "failed", !.result = "Error"]
    /\ UNCHANGED <<comments, attachments, now, pager, clientVars>>

\* InsertAttachments with one insert per record: a failure after the first
InsertAttachmentsOneByOne(ok) ==
    /\ req.pc = "attach"
    /\ attachments' = attachments \cup
           { [ id |-> req.urls[i], commentId |-> req.commentId,
               fileUrl |-> req.urls[i],
               fileType |-> getFileType(req.files[i]) ]
             : i \in IF ok THEN 1 .. Len(req.urls) ELSE {1} }
    /\ req' = IF ok THEN [req EXCEPT !.pc = "done", !.result = "Created"]
              ELSE [req EXCEPT !.pc = "failed", !.result = "Error"]
    /\ UNCHANGED <<comments, blobs, now, pager, clientVars>>

\* insert(attachments).values(attachmentRecords): one statement
InsertAttachments(ok) ==
    /\ req.pc = "attach"
    /\ IF ok
       THEN /\ attachments' = attachments \cup
                  { [ id |-> req.urls[i], commentId |-> req.commentId,
                      fileUrl |-> req.urls[i],
                      fileType |-> getFileType(req.files[i]) ]
                    : i \in 1 .. Len(req.urls) }
            /\ req' = [req EXCEPT !.pc = "done", !.result = "Created"]
       ELSE /\ req' = [req EXCEPT !.pc = "failed", !.result = "Error"]
            /\ UNCHANGED attachments
    /\ UNCHANGED <<comments, blobs, now, pager, clientVars>>

(***************************************************************************)
(* The web client: the query cache and useAddComment                       *)
(***************************************************************************)
MaxSubs == 2       \* concurrent submissions of the client
PageSize == 2      \* comments to a page of the client's queries (limit: 25)

Subs == 1 .. MaxSubs

\* commentKeys.roots(sortBy, sortOrder) / commentKeys.replies(parentId)
RootsKey(sortBy, sortOrder) ==
    [kind |-> "roots", sortBy |-> sortBy, sortOrder |-> sortOrder, parentId |-> NULL]
RepliesKey(parentId) ==
    [kind |-> "replies", sortBy |-> "none", sortOrder |-> "none", parentId |-> parentId]

\* the comments the server holds while the client runs: roots 1 and 2, and
\* 3, a reply to 1 (interface Comment, without the fields no handler reads)
CachedComment(id, parentId, repliesCount) ==
    [id |-> id, parentId |-> parentId, repliesCount |-> repliesCount]
ServerComments ==
    { CachedComment(1, NULL, 1), CachedComment(2, NULL, 0), CachedComment(3, 1, 0) }
ServerComment(id) == CHOOSE c \in ServerComments : c.id = id

\* the root queries the views of the client use, and the replies lists
RootKeys == {RootsKey("createdAt", "desc"), RootsKey("userName", "asc")}
ReplyKeys == {RepliesKey(c.id) : c \in ServerComments}
Keys == RootKeys \cup ReplyKeys

\* getQueryData of a query without data
Undefined == [defined |-> FALSE, pages |-> <<>>, pageParams |-> <<>>]

\* InfiniteData<CommentsResponse>
InfiniteData(pages, pageParams) ==
    [defined |-> TRUE, pages |-> pages, pageParams |-> pageParams]
Page(data, nextCursor) == [data |-> data, nextCursor |-> nextCursor]

\* the ids of a scope in the order of a query key
ServerOrder(key) ==
    IF key.kind = "replies"
    THEN OrderBy({c \in ServerComments : c.parentId = key.parentId}, "id", "desc")
    ELSE OrderBy({c \in ServerComments : c.parentId = NULL}, "id",
                 IF key.sortOrder = "desc" THEN "desc" ELSE "asc")

\* what a query holds after its pages were fetched: nothing, the whole list as
\* one page, or the list one comment to a page
Fetched(key) ==
    LET rows == ServerOrder(key)
    IN  {Undefined, InfiniteData(<<Page(rows, NULL)>>, <<NULL>>)} \cup
        IF Len(rows) < 2 THEN {}
        ELSE { InfiniteData(
                 [i \in 1 .. Len(rows) |->
                    Page(<<rows[i]>>, IF i < Len(rows) THEN rows[i].id ELSE NULL)],
                 [i \in 1 .. Len(rows) |-> IF i = 1 THEN NULL ELSE rows[i - 1].id]) }

\* updateCommentRepliesCount without Math.max(0, ...)
updateCommentRepliesCountNoClamp(cs, targetId, increment) ==
    [i \in 1 .. Len(cs) |->
        IF cs[i].id = targetId
        THEN [cs[i] EXCEPT !.repliesCount = cs[i].repliesCount + increment]
        ELSE cs[i]]

\* comments.map((comment) => comment.id === targetId
\*     ? {...comment, repliesCount: Math.max(0, repliesCount + increment)} : comment)
updateCommentRepliesCount(cs, targetId, increment) ==
    [i \in 1 .. Len(cs) |->
        IF cs[i].id = targetId
        THEN [cs[i] EXCEPT !.repliesCount = Max(0, cs[i].repliesCount + increment)]
        ELSE cs[i]]

\* queryClient.setQueryData(key, data): undefined data leaves the query as is
setQueryData(c, key, data) ==
    IF data.defined THEN [c EXCEPT ![key] = data] ELSE c

\* AddToFirstPage with the new comment put after the comments of the page
AddToFirstPageEnd(old, optimisticComment) ==
    [old EXCEPT !.pages =
        [i \in 1 .. Len(old.pages) |->
            IF i = 1
            THEN [old.pages[i] EXCEPT !.data = @ \o <<optimisticComment>>]
            ELSE old.pages[i]]]

\* pages.map((page, index) => index === 0 ? {...page, data: [optimistic, ...page.data]} : page)
AddToFirstPage(old, optimisticComment) ==
    [old EXCEPT !.pages =
        [i \in 1 .. Len(old.pages) |->
            IF i = 1
            THEN [old.pages[i] EXCEPT !.data = <<optimisticComment>> \o @]
            ELSE old.pages[i]]]

\* pages.map((page) => ({...page, data: updateCommentRepliesCount(page.data, id, inc)}))
WithRepliesCount(data, targetId, increment) ==
    [data EXCEPT !.pages =
        [i \in 1 .. Len(data.pages) |->
            [data.pages[i] EXCEPT
                !.data = updateCommentRepliesCount(@, targetId, increment)]]]

\* allRootQueryKeys.forEach(... setQueryData(queryKey, {...repliesCount changed}))
\* over the root queries that hold data
UpdateRootCounts(c, targetId, increment) ==
    [k \in Keys |->
        IF k \in RootKeys /\ c[k].defined
        THEN WithRepliesCount(c[k], targetId, increment)
        ELSE c[k]]

NoContext ==
    [ isReply |-> FALSE, parentId |-> NULL, previousReplies |-> Undefined,
      previousQueries |-> [k \in RootKeys |-> Undefined] ]

IdleSub ==
    [ state |-> "idle", parentId |-> NULL, tempId |-> NULL,
      allRootQueryKeys |-> [k \in RootKeys |-> Undefined],
      context |-> NoContext,
      before |-> [k \in Keys |-> Undefined], wrote |-> {}, peers |-> {},
      inflight |-> {}, raced |-> {}, invalidated |-> {}, clamped |-> FALSE ]

\* temp-${Date.now()}-${random}: an id no comment and no other submission has
TempId(s) == 0 - s

OptimisticComment(s) == CachedComment(subs[s].tempId, subs[s].parentId, 0)

\* the queries onMutate cancels: cancelQueries({queryKey: repliesQueryKey}) in
\* the reply branch, cancelQueries of every root query in the root branch
CancelledKeys(parentId) ==
    IF parentId # NULL THEN {RepliesKey(parentId)} ELSE RootKeys

\* queryClient.cancelQueries: the fetch in flight of each query is dropped
cancelQueries(f, keys) ==
    [k \in Keys |-> IF k \in keys THEN "idle" ELSE f[k]]

\* mutate(newComment): onMutate runs up to its await of cancelQueries.  The
\* root branch has read the root queries by then, the reply branch nothing.
OnMutateStart(s, parentId) ==
    /\ subs[s].state = "idle"
    /\ subs' = [subs EXCEPT ![s] =
                  [@ EXCEPT !.state = "cancelling", !.parentId = parentId,
                            !.tempId = TempId(s),
                            !.allRootQueryKeys =
                                IF parentId = NULL
                                THEN [k \in RootKeys |-> cache[k]]
                                ELSE @,
                            !.before = cache,
                            !.inflight = {k \in Keys : fetches[k] = "fetching"}
                                             \ CancelledKeys(parentId)]]
    /\ fetches' = cancelQueries(fetches, CancelledKeys(parentId))
    /\ UNCHANGED <<cache, serverVars, pager>>

\* the reply branch of onMutate after cancelQueries has settled
ReplyBranch(s) ==
    LET parentId == subs[s].parentId
        repliesQueryKey == RepliesKey(parentId)
        previousReplies == cache[repliesQueryKey]
        withReply ==
            [cache EXCEPT ![repliesQueryKey] =
                IF ~previousReplies.defined
                THEN InfiniteData(<<[data |-> <<OptimisticComment(s)>>]>>, <<NULL>>)
                ELSE AddToFirstPage(previousReplies, OptimisticComment(s))]
    IN  [ cache |-> UpdateRootCounts(withReply, parentId, 1),
          context |-> [ isReply |-> TRUE, parentId |-> parentId,
                        previousReplies |-> previousReplies,
                        previousQueries |-> [k \in RootKeys |-> Undefined] ],
          wrote |-> {repliesQueryKey} ]

\* the root branch of onMutate after cancelQueries has settled: the snapshot
\* and the new values come from what was read before the await
RootBranch(s) ==
    LET read == subs[s].allRootQueryKeys
    IN  [ cache |-> [k \in Keys |->
                        IF k \in RootKeys /\ read[k].defined
                        THEN AddToFirstPage(read[k], OptimisticComment(s))
                        ELSE cache[k]],
          context |-> [ isReply |-> FALSE, parentId |-> NULL,
                        previousReplies |-> Undefined,
                        previousQueries |-> read ],
          wrote |-> {k \in RootKeys : read[k].defined} ]

OnMutateResume(s) ==
    /\ subs[s].state = "cancelling"
    /\ LET branch == IF subs[s].parentId # NULL THEN ReplyBranch(s) ELSE RootBranch(s)
           pending == {t \in Subs : subs[t].state = "pending"}
       IN  /\ cache' = branch.cache
           /\ subs' = [t \in Subs |->
                         IF t = s
                         THEN [subs[t] EXCEPT !.state = "pending",
                                              !.context = branch.context,
                                              !.wrote = branch.wrote,
                                              !.peers = pending,
                                              !.raced =
                                                  {k \in subs[s].inflight :
                                                      branch.cache[k] # cache[k]}]
                         ELSE IF t \in pending
                         THEN [subs[t] EXCEPT !.peers = @ \cup {s}]
                         ELSE subs[t]]
    /\ UNCHANGED <<serverVars, pager, fetches>>

\* the cached copies of comment id in the data of a query
CachedCopies(data, id) ==
    { c \in UNION { {data.pages[i].data[j] : j \in 1 .. Len(data.pages[i].data)}
                     : i \in 1 .. Len(data.pages) } : c.id = id }

\* the cache after onError(error, newComment, context)
RollBack(c, context) ==
    IF context.isReply /\ context.parentId # NULL
    THEN UpdateRootCounts(
             setQueryData(c, RepliesKey(context.parentId), context.previousReplies),
             context.parentId, 0 - 1)
    ELSE [k \in Keys |->
            IF k \in RootKeys /\ context.previousQueries[k].defined
            THEN context.previousQueries[k] ELSE c[k]]

\* the mutation fails: onError rolls the optimistic update back
OnError(s) ==
    /\ subs[s].state = "pending"
    /\ cache' = RollBack(cache, subs[s].context)
    /\ subs' = [subs EXCEPT ![s] =
                  [@ EXCEPT !.state = "rolledback",
                            !.clamped =
                                /\ subs[s].context.isReply
                                /\ \E k \in RootKeys :
                                      \E c \in CachedCopies(cache[k], subs[s].parentId) :
                                          c.repliesCount = 0]]
    /\ UNCHANGED <<serverVars, pager, fetches>>

\* the id the server gives the comment of submission s
ServerId(s) == Cardinality(ServerComments) + s

\* the comments the server holds now: a committed submission added its
\* comment, which counts as a reply of its parent
StoredComments ==
    LET committed == {s \in Subs : subs[s].state = "committed"}
    IN  { CachedComment(c.id, c.parentId,
              c.repliesCount
                + Cardinality({s \in committed : subs[s].parentId = c.id}))
          : c \in ServerComments }
        \cup {CachedComment(ServerId(s), subs[s].parentId, 0) : s \in committed}

\* the comments of a scope now, in the order of a query key
StoredOrder(key) ==
    IF key.kind = "replies"
    THEN OrderBy({c \in StoredComments : c.parentId = key.parentId}, "id", "desc")
    ELSE OrderBy({c \in StoredComments : c.parentId = NULL}, "id",
                 IF key.sortOrder = "desc" THEN "desc" ELSE "asc")

\* the first n pages of a list, each page asked with the cursor of the one
\* before: pages of PageSize comments, nextCursor naming the last comment of
\* a page that has successors
PagesOf(rows, n) ==
    LET total == IF Len(rows) = 0 THEN 1
                 ELSE (Len(rows) + PageSize - 1) \div PageSize
        m == IF n < total THEN n ELSE total
    IN  InfiniteData(
            [i \in 1 .. m |->
                Page(SubSeq(rows, (i - 1) * PageSize + 1,
                            IF i * PageSize < Len(rows) THEN i * PageSize
                            ELSE Len(rows)),
                     IF i * PageSize < Len(rows) THEN rows[i * PageSize].id
                     ELSE NULL)],
            [i \in 1 .. m |->
                IF i = 1 THEN NULL ELSE rows[(i - 1) * PageSize].id])

\* what the server answers to the fetch of the first n pages of a query (the
\* list is put in order once)
ServerData(key, n) ==
    CHOOSE data \in {PagesOf(rows, n) : rows \in {StoredOrder(key)}} : TRUE

\* InvalidatedKeys without the invalidation of the parent's replies list
InvalidatedKeysRootsOnly(parentId) == RootKeys

\* the queries onSuccess invalidates: the root queries, and for a reply the
\* replies list of its parent
InvalidatedKeys(parentId) ==
    IF parentId # NULL THEN {RepliesKey(parentId)} \cup RootKeys ELSE RootKeys

\* queryClient.invalidateQueries: each matching query of the cache is marked
\* stale and fetched again, a fetch in flight being replaced (the queries
\* of the cache are those the views show)
invalidateQueries(f, c, keys) ==
    [k \in Keys |->
        IF k \in keys /\ (c[k].defined \/ f[k] = "fetching")
        THEN "fetching" ELSE f[k]]

\* allCachedQueries.forEach(... setQueryData(queryKey, updatedData)) over
\* every query that holds pages
UpdateAllCounts(c, targetId, increment) ==
    [k \in Keys |->
        IF c[k].defined THEN WithRepliesCount(c[k], targetId, increment)
        ELSE c[k]]

\* the mutation succeeds: the server stored the comment, onSuccess runs
OnSuccess(s) ==
    /\ subs[s].state = "pending"
    /\ LET parentId == subs[s].parentId
           updated == IF parentId # NULL
                      THEN UpdateAllCounts(cache, parentId, 1) ELSE cache
           refetched == {k \in InvalidatedKeys(parentId) :
                            cache[k].defined \/ fetches[k] = "fetching"}
       IN  /\ cache' = updated
           /\ fetches' = invalidateQueries(fetches, cache, InvalidatedKeys(parentId))
           /\ subs' = [t \in Subs |->
                         IF t = s
                         THEN [subs[t] EXCEPT !.state = "committed",
                                              !.invalidated = refetched,
                                              !.inflight = @ \ refetched]
                         ELSE [subs[t] EXCEPT !.inflight = @ \ refetched]]
    /\ UNCHANGED <<serverVars, pager>>

\* useInfiniteQuery fetches or refetches a query (mount, window focus,
\* invalidation)
StartFetch(key) ==
    /\ fetches[key] = "idle"
    /\ fetches' = [fetches EXCEPT ![key] = "fetching"]
    /\ UNCHANGED <<cache, subs, serverVars, pager>>

\* the response of a fetch that was not cancelled arrives: it becomes the
\* data of the query.  A query that holds pages is fetched again page by
\* page, as many pages as it holds
FetchSuccess(key) ==
    /\ fetches[key] = "fetching"
    /\ cache' = [cache EXCEPT ![key] =
                    ServerData(key, IF Len(cache[key].pages) > 0
                                    THEN Len(cache[key].pages) ELSE 1)]
    /\ fetches' = [fetches EXCEPT ![key] = "idle"]
    /\ subs' = [s \in Subs |-> [subs[s] EXCEPT !.inflight = @ \ {key}]]
    /\ UNCHANGED <<serverVars, pager>>

(***************************************************************************)
(* Specifications                                                          *)
(***************************************************************************)
ServerInit ==
    /\ comments = {}
    /\ attachments = {}
    /\ blobs = {}
    /\ now = 0
    /\ req = Idle
    /\ pager = NoPager

ClientIdle ==
    /\ cache = [k \in Keys |-> Undefined]
    /\ subs = [s \in Subs |-> IdleSub]
    /\ fetches = [k \in Keys |-> "idle"]

Init == ServerInit /\ ClientIdle

Next ==
    \/ \E a \in Authors, p \in ParentChoices, f \in FileLists, v \in BOOLEAN :
          Receive(a, p, f, v)
    \/ \E o \in {"success", "failure", "unreachable"} : ValidateCaptcha(o)
    \/ \E ok \in BOOLEAN : InsertComment(ok)
    \/ \E stored \in SUBSET (1 .. MaxFiles) : UploadFiles(stored)
    \/ \E ok \in BOOLEAN : InsertAttachments(ok)

Spec == Init /\ [][Next]_vars

\* createComment of requests without files over the texts a client may send
TextNext ==
    \/ \E a \in AuthorTexts, p \in ParentChoices \ {DanglingId} :
          Receive(a, p, <<>>, TRUE)
    \/ \E o \in {"success", "failure", "unreachable"} : ValidateCaptcha(o)
    \/ \E ok \in BOOLEAN : InsertComment(ok)

TextSpec == Init /\ [][TextNext]_vars

PageInit == ServerInit /\ ClientIdle

PageNext ==
    \/ \E a \in Authors, p \in ParentChoices \ {DanglingId} :
          CreateCommentNoFiles(a, p)
    \/ \E sb \in SortBys, so \in SortOrders, l \in Limits,
          p \in ParentChoices \ {DanglingId} : FetchFirstPage(sb, so, l, p)
    \/ FetchNextPage

PageSpec == PageInit /\ [][PageNext]_vars

\* ids a client can send as cursor: a stored comment's, whatever its scope,
\* or a well-formed uuid naming no comment
CursorChoices == {DanglingId} \cup {c.id : c \in comments}

\* every content of the tables the creations reach, then one page request on
\* it at a cursor of the client's choice: what is created after the response
\* does not change the response
ReadNext ==
    \/ /\ ~pager.active
       /\ \E a \in Authors, p \in ParentChoices \ {DanglingId} :
             CreateCommentNoFiles(a, p)
    \/ \E sb \in SortBys, so \in SortOrders, l \in Limits,
          p \in ParentChoices \ {DanglingId}, cursor \in CursorChoices :
          GetComments(sb, so, l, p, cursor)

ReadSpec == PageInit /\ [][ReadNext]_vars

\* comments created with and without files, then the request of a first page
AttachNext ==
    \/ /\ ~pager.active
       /\ \E a \in Authors, p \in ParentChoices \ {DanglingId} :
             CreateCommentNoFiles(a, p)
    \/ /\ ~pager.active
       /\ \E a \in Authors, p \in ParentChoices \ {DanglingId} :
             CreateCommentWithFiles(a, p, MaxAttachments)
    \/ \E sb \in SortBys, so \in SortOrders, l \in Limits,
          p \in ParentChoices \ {DanglingId} : FetchFirstPage(sb, so, l, p)

AttachSpec == PageInit /\ [][AttachNext]_vars

\* the client with its queries fetched, before any submission
CacheInit ==
    /\ ServerInit
    /\ cache \in [Keys -> UNION {Fetched(k) : k \in Keys}]
    /\ \A k \in Keys : cache[k] \in Fetched(k)
    /\ subs = [s \in Subs |-> IdleSub]
    /\ fetches = [k \in Keys |-> "idle"]

CacheNext ==
    \/ \E s \in Subs, p \in {NULL} \cup {c.id : c \in ServerComments} :
          OnMutateStart(s, p)
    \/ \E s \in Subs : OnMutateResume(s)
    \/ \E s \in Subs : OnError(s)

CacheSpec == CacheInit /\ [][CacheNext]_vars

\* the client with every query fetched in one page
FetchInit ==
    /\ ServerInit
    /\ subs = [s \in Subs |-> IdleSub]
    /\ cache = [k \in Keys |-> ServerData(k, 1)]
    /\ fetches = [k \in Keys |-> "idle"]

\* one submission while the queries are fetched again
FetchNext ==
    \/ \E p \in {NULL} \cup {c.id : c \in ServerComments} : OnMutateStart(1, p)
    \/ OnMutateResume(1)
    \/ OnError(1)
    \/ OnSuccess(1)
    \/ \E k \in Keys : StartFetch(k)
    \/ \E k \in Keys : FetchSuccess(k)

FetchSpec == FetchInit /\ [][FetchNext]_vars

\* FetchSpec when the response of every fetch in flight eventually arrives
FairFetchSpec ==
    /\ FetchInit
    /\ [][FetchNext]_vars
    /\ \A k \in Keys : WF_vars(FetchSuccess(k))

\* the Pending steps of the submissions alone
PendingNext ==
    \/ \E s \in Subs, p \in {NULL} \cup {c.id : c \in ServerComments} :
          OnMutateStart(s, p)
    \/ \E s \in Subs : OnMutateResume(s)

PendingSpec == CacheInit /\ [][PendingNext]_vars

\* the submissions with their commits and rollbacks, while the root queries
\* are fetched again and the invalidated queries refetched
ClientNext ==
    \/ \E s \in Subs, p \in {NULL} \cup {c.id : c \in ServerComments} :
          OnMutateStart(s, p)
    \/ \E s \in Subs : OnMutateResume(s)
    \/ \E s \in Subs : OnError(s)
    \/ \E s \in Subs : OnSuccess(s)
    \/ \E k \in RootKeys : StartFetch(k)
    \/ \E k \in Keys : FetchSuccess(k)

ClientSpec == FetchInit /\ [][ClientNext]_vars

(***************************************************************************)
(* Properties of the paginated read path (PageSpec)                        *)
(***************************************************************************)
PageIds(pg) == {pg.data[i].id : i \in 1 .. Len(pg.data)}
IdsOf(rows) == [i \in 1 .. Len(rows) |-> rows[i].id]

\* the stored rows of the session's scope when page pg was served
ScopeRows(pg) == {c \in pg.db : c.parentId = pager.parentId}

\* the stored row with the given id when page pg was served
RowOf(pg, id) == CHOOSE c \in pg.db : c.id = id

Ceil(n, d) == (n + d - 1) \div d

\* every page of the session was served from the same stored comments
FixedSet == \A i \in 1 .. Len(pager.pages) : pager.pages[i].db = pager.pages[1].db

\* C1: with the stored comments fixed, a page of limit L and the page fetched
\* with its nextCursor are disjoint and together equal, row for row, the data
\* of one request of limit 2L from the same position
C1_TwoPagesEqualOneDoublePage ==
    \A i \in 1 .. Len(pager.pages) - 1 :
        LET pg == pager.pages[i]
            nx == pager.pages[i + 1]
            double == findComments(pg.db, attachments,
                          [ sortBy |-> pager.sortBy, sortOrder |-> pager.sortOrder,
                            limit |-> 2 * pager.limit, cursor |-> pg.cursor ],
                          pager.parentId)
        IN  pg.db = nx.db =>
               /\ PageIds(pg) \cap PageIds(nx) = {}
               /\ pg.data \o nx.data = double.data

\* C2: whatever is inserted between two consecutive page fetches, the second
\* page repeats no row of the first and skips no untouched row that sorts
\* after the first page's last row
C2_NoDuplicateNoSkipUnderWrites ==
    \A i \in 1 .. Len(pager.pages) - 1 :
        LET pg == pager.pages[i]
            nx == pager.pages[i + 1]
            last == RowOf(pg, pg.nextCursor)
            untouched == {c \in ScopeRows(pg) \cap ScopeRows(nx) :
                             Precedes(last, c, pager.sortBy, pager.sortOrder)}
            due == IF nx.nextCursor = NULL THEN untouched
                   ELSE {c \in untouched :
                           \/ c.id = nx.nextCursor
                           \/ Precedes(c, RowOf(nx, nx.nextCursor),
                                       pager.sortBy, pager.sortOrder)}
        IN  /\ PageIds(pg) \cap PageIds(nx) = {}
            /\ {c.id : c \in due} \subseteq PageIds(nx)

\* C3: with n comments of the scope fixed, following nextCursor from no cursor
\* ends with nextCursor = null after exactly max(1, ceil(n/L)) requests, and
\* the pages together are the scope's comments, once each, in the sort order
C3_PagingTerminatesWithEveryRowOnce ==
    FixedSet /\ pager.active =>
        LET pages == pager.pages
            scope == ScopeRows(pages[1])
            needed == Max(1, Ceil(Cardinality(scope), pager.limit))
        IN  /\ Len(pages) <= needed
            /\ pages[Len(pages)].nextCursor = NULL =>
                  /\ Len(pages) = needed
                  /\ \A c \in scope :
                        Cardinality({i \in 1 .. Len(pages) : c.id \in PageIds(pages[i])}) = 1
                  /\ \A i \in 1 .. Len(pages) :
                        IdsOf(pages[i].data) =
                          IdsOf(SubSeq(OrderBy(scope, pager.sortBy, pager.sortOrder),
                                       (i - 1) * pager.limit + 1,
                                       (i - 1) * pager.limit + Len(pages[i].data)))

\* C4: the page assembler returns the first limit rows it received, in their
\* order, with nextCursor the id of the last of them when more than limit
\* rows matched, and all rows with nextCursor = null otherwise; the padding
\* row is never in data
C4_PageAssembler ==
    \A i \in 1 .. Len(pager.pages) :
        LET pg == pager.pages[i]
            limit == pager.limit
        IN  /\ Len(pg.data) <= limit
            /\ Len(pg.results) > limit =>
                  /\ pg.data = SubSeq(pg.results, 1, limit)
                  /\ pg.nextCursor = pg.data[limit].id
                  /\ pg.results[limit + 1].id \notin PageIds(pg)
            /\ Len(pg.results) <= limit =>
                  /\ pg.data = pg.results
                  /\ pg.nextCursor = NULL

\* C4 witness: a truncated page followed by a full last page without cursor
C4_Witness ==
    /\ Len(pager.pages) >= 2
    /\ Len(pager.pages[1].results) = pager.limit + 1
    /\ LET lastPage == pager.pages[Len(pager.pages)]
       IN  /\ Len(lastPage.results) = pager.limit
           /\ Len(lastPage.data) = pager.limit
           /\ lastPage.nextCursor = NULL

Min(a, b) == IF a < b THEN a ELSE b

\* C11: every comment of every returned page (root or replies, any sort, with
\* or without cursor) carries as repliesCount the number of comments stored
\* at the time of the query whose parentId is its id
C11_RepliesCountIsNumberOfReplies ==
    \A i \in 1 .. Len(pager.pages) :
        LET pg == pager.pages[i]
        IN  \A j \in 1 .. Len(pg.data) :
               pg.data[j].repliesCount =
                   Cardinality({c \in pg.db : c.parentId = pg.data[j].id})

\* C11 witness: a returned page holds a comment that has a reply
C11_Witness ==
    \E i \in 1 .. Len(pager.pages) :
        \E j \in 1 .. Len(pager.pages[i].data) :
            /\ pager.pages[i].data[j].repliesCount >= 1
            /\ \E c \in pager.pages[i].db : c.parentId = pager.pages[i].data[j].id

\* C12: every comment of a returned page carries exactly the Attachment rows
\* whose commentId is its id, the empty list when it has none; a comment
\* appears once whatever the number of its attachments and counts once
\* toward limit, and a comment without attachments is not left out
C12_AttachmentsOfEachComment ==
    \A i \in 1 .. Len(pager.pages) :
        LET pg == pager.pages[i]
            scope == {c \in pg.db : c.parentId = pager.parentId}
        IN  /\ \A j \in 1 .. Len(pg.data) :
                  pg.data[j].attachments =
                      {a \in pg.atts : a.commentId = pg.data[j].id}
            /\ Cardinality(PageIds(pg)) = Len(pg.data)
            /\ pg.cursor = NULL =>
                  /\ Len(pg.data) = Min(pager.limit, Cardinality(scope))
                  /\ Len(pg.results) = Min(pager.limit + 1, Cardinality(scope))

\* C12 witness: one page holds a comment with several attachments and a
\* comment with none
C12_Witness ==
    \E i \in 1 .. Len(pager.pages) :
        LET data == pager.pages[i].data
        IN  /\ \E j \in 1 .. Len(data) : Cardinality(data[j].attachments) >= 2
            /\ \E j \in 1 .. Len(data) : data[j].attachments = {}

\* C13: a page request whose cursor is a well-formed id of no stored comment
\* returns the data and the nextCursor of the same request without cursor
C13_UnknownCursorIsNoCursor ==
    \A i \in 1 .. Len(pager.pages) :
        LET pg == pager.pages[i]
            same == findComments(pg.db, pg.atts,
                        [ sortBy |-> pager.sortBy, sortOrder |-> pager.sortOrder,
                          limit |-> pager.limit, cursor |-> NULL ],
                        pager.parentId)
        IN  (pg.cursor # NULL /\ ~ \E c \in pg.db : c.id = pg.cursor) =>
                /\ pg.data = same.data
                /\ pg.nextCursor = same.nextCursor
                /\ Len(pg.data) = Min(pager.limit,
                       Cardinality({c \in pg.db : c.parentId = pager.parentId}))

\* C13 witness: a request with an unknown cursor answered with a full page
\* and a nextCursor
C13_Witness ==
    /\ pager.active
    /\ pager.pages[1].cursor = DanglingId
    /\ Len(pager.pages[1].data) = pager.limit
    /\ pager.pages[1].nextCursor # NULL

C15_PageStaysInScope ==
    \A i \in 1 .. Len(pager.pages) :
        \A j \in 1 .. Len(pager.pages[i].data) :
            pager.pages[i].data[j].parentId = pager.parentId

\* C15 witness: a non-empty page served for a cursor that names a comment of
\* another scope
C15_Witness ==
    /\ pager.active
    /\ LET pg == pager.pages[1]
       IN  /\ \E c \in pg.db : c.id = pg.cursor /\ c.parentId # pager.parentId
           /\ Len(pg.data) >= 1

\* C18: a page request is served by one database query, with or without a
\* cursor and whatever the number of rows returned
C18_OneQueryPerPage ==
    \A i \in 1 .. Len(pager.pages) : pager.pages[i].queries = 1

(***************************************************************************)
(* Properties of createComment (Spec)                                      *)
(***************************************************************************)
Settled == req.pc \in {"rejected", "failed", "done"}

NothingPersisted ==
    /\ comments = req.before.comments
    /\ attachments = req.before.attachments

\* the request carries malformed input: a body the schema rejects, a file of
\* unsupported type, or a text file above the size limit
Malformed ==
    \/ ~req.valid
    \/ \E i \in 1 .. Len(req.files) :
          \/ req.files[i].mimetype \notin allowedMimeTypes
          \/ MustThrow(req.files[i])

\* C7: every stored comment's parentId is null or the id of a stored comment
\* (a creation naming a parent that does not exist persists nothing)
C7_ParentIdReferencesStoredComment ==
    \A c \in comments :
        c.parentId = NULL \/ \E p \in comments : p.id = c.parentId

\* C8: a creation request rejected for malformed input (oversized text file
\* and unsupported MIME type included) leaves no Comment row and no
\* Attachment row of that request
C8_MalformedNeverPartiallyApplied ==
    Settled /\ req.n > 0 /\ Malformed =>
        /\ req.pc # "done"
        /\ NothingPersisted

\* C9: when the spam check fails or is unreachable, createComment fails before
\* any persistence: no Comment row, no uploaded file, no Attachment row
C9_CaptchaFailurePersistsNothing ==
    req.captcha \in {"failure", "unreachable"} =>
        /\ req.pc = "failed"
        /\ req.commentId = NULL
        /\ NothingPersisted
        /\ blobs = req.before.blobs

\* C9 witness: a request with a file, refused because the spam check could
\* not be reached
C9_Witness ==
    /\ req.captcha = "unreachable"
    /\ req.pc = "failed"
    /\ Len(req.files) > 0

\* C10: when the upload of an attachment or the insert of the Attachment rows
\* fails after the Comment insert, the Comment row stays, it has no
\* Attachment row, and the call returns a failure
C10_AttachmentFailureLeavesBareComment ==
    req.pc = "failed" /\ req.commentId # NULL =>
        /\ \E c \in comments : c.id = req.commentId
        /\ comments # req.before.comments
        /\ ~ \E a \in attachments : a.commentId = req.commentId
        /\ req.result = "Error"

\* C10 witness: the insert of the Attachment rows failed after every file of
\* the request was uploaded
C10_Witness ==
    /\ req.pc = "failed"
    /\ req.commentId # NULL
    /\ Len(req.urls) = MaxFiles
    /\ \A i \in 1 .. Len(req.urls) : req.urls[i] \in blobs

RECURSIVE ReachesRoot(_, _)
\* following parentId from id reaches null in at most steps steps
ReachesRoot(id, steps) ==
    \/ id = NULL
    \/ /\ steps > 0
       /\ \E c \in comments : c.id = id /\ ReachesRoot(c.parentId, steps - 1)

\* C16: the parent/child relation over the stored comments is a forest:
\* following parentId from any stored comment reaches a root in finitely
\* many steps, and no comment is its own ancestor
C16_ParentRelationIsForest ==
    \A c \in comments : ReachesRoot(c.id, Cardinality(comments))

\* C17: every stored comment has a non-empty text, for every raw text that
\* input validation accepts
C17_StoredTextNonEmpty ==
    \A c \in comments : c.text # <<>>

(***************************************************************************)
(* Properties of the optimistic cache protocol (CacheSpec)                 *)
(***************************************************************************)
FirstPageIds(data) ==
    IF data.defined /\ Len(data.pages) > 0
    THEN {data.pages[1].data[i].id : i \in 1 .. Len(data.pages[1].data)}
    ELSE {}

PendingReplies(parentId) ==
    {t \in Subs : subs[t].state = "pending" /\ subs[t].parentId = parentId}

\* C5: when two submissions of one scope are Pending together and one fails,
\* its rollback leaves the other's provisional comment in the cached first
\* pages it was put in, and the parent's cached repliesCount still counts the
\* other pending reply
C5_RollbackKeepsOtherPending ==
    \A a \in Subs, b \in Subs :
        /\ a # b
        /\ subs[a].state = "rolledback"
        /\ subs[b].state = "pending"
        /\ b \in subs[a].peers
        /\ subs[a].parentId = subs[b].parentId
        => /\ \A k \in subs[b].wrote : subs[b].tempId \in FirstPageIds(cache[k])
           /\ subs[b].parentId # NULL =>
                 \A k \in RootKeys : \A c \in CachedCopies(cache[k], subs[b].parentId) :
                     c.repliesCount =
                         ServerComment(c.id).repliesCount
                           + Cardinality(PendingReplies(c.id))

\* C6: for a single submission with no other activity, the Pending update
\* followed by its rollback leaves every cache entry equal to its value from
\* before the Pending step
C6_RollbackRestoresCache ==
    \A s \in Subs :
        /\ subs[s].state = "rolledback"
        /\ \A t \in Subs \ {s} : subs[t].state = "idle"
        => cache = subs[s].before

\* C19: when a submission enters Pending, every cache entry the Pending step
\* mutates has had its fetch in flight cancelled before the mutation, so no
\* response of a fetch started before the optimistic write can overwrite it
C19_MutatedEntriesHaveNoFetchInFlight ==
    \A s \in Subs : subs[s].raced = {}

\* C20: when a reply to parent P enters Pending, the repliesCount of P is one
\* more in every cached page that holds P: the root queries of every sort and,
\* when P is a reply, the replies list of P's parent
C20_ParentCountIncrementedEverywhere ==
    \A s \in Subs :
        /\ subs[s].state = "pending"
        /\ subs[s].parentId # NULL
        /\ \A t \in Subs \ {s} : subs[t].state = "idle"
        => \A k \in Keys : \A c \in CachedCopies(cache[k], subs[s].parentId) :
              c.repliesCount = ServerComment(c.id).repliesCount + 1

\* the cache of a submission's snapshot holds no provisional comment and no
\* changed count: it is the cache from before any submission
Pristine(c) == \A k \in Keys : c[k] \in Fetched(k)

\* C22: when two submissions of one scope are Pending together and both fail,
\* after both rollbacks, in either order, every cache entry equals its value
\* from before the first submission
C22_BothRollbacksRestoreCache ==
    \A a \in Subs, b \in Subs :
        /\ a # b
        /\ subs[a].state = "rolledback"
        /\ subs[b].state = "rolledback"
        /\ b \in subs[a].peers
        /\ subs[a].parentId = subs[b].parentId
        /\ Pristine(subs[a].before)
        => cache = subs[a].before

\* C23: when the Pending steps of two root submissions interleave at the
\* await of cancelQueries (each read the root queries before the other
\* wrote), then once both are Pending the first page of every cached root
\* query holds both provisional comments
C23_InterleavedRootSubmissionsBothShown ==
    \A a \in Subs, b \in Subs :
        /\ a # b
        /\ subs[a].state = "pending" /\ subs[a].parentId = NULL
        /\ subs[b].state = "pending" /\ subs[b].parentId = NULL
        /\ \A k \in RootKeys :
              /\ subs[b].tempId \notin FirstPageIds(subs[a].allRootQueryKeys[k])
              /\ subs[a].tempId \notin FirstPageIds(subs[b].allRootQueryKeys[k])
        => \A k \in RootKeys :
              cache[k].defined =>
                 {subs[a].tempId, subs[b].tempId} \subseteq FirstPageIds(cache[k])

\* the queries of the scope a submission adds a comment to
ScopeKeys(parentId) ==
    IF parentId = NULL THEN RootKeys ELSE {RepliesKey(parentId)}

\* the step in which the onMutate of submission s completes
PendingStep(s) == subs[s].state = "cancelling" /\ subs'[s].state = "pending"

\* C26: when the Pending step of a submission completes, the provisional
\* comment (temporary id, repliesCount 0) is the first element of the first
\* page of every cached query of the submission's scope that holds data
C26_ProvisionalCommentHeadsFirstPages ==
    [][ \A s \in Subs :
           PendingStep(s) =>
              \A k \in ScopeKeys(subs[s].parentId) :
                 cache'[k].defined =>
                    /\ Len(cache'[k].pages) > 0
                    /\ Len(cache'[k].pages[1].data) > 0
                    /\ cache'[k].pages[1].data[1] =
                          CachedComment(TempId(s), subs[s].parentId, 0) ]_vars

\* C26 witness: a root submission is Pending with both root queries cached,
\* its provisional comment before the fetched comments of each first page
C26_Witness ==
    \E s \in Subs :
        /\ subs[s].state = "pending"
        /\ subs[s].parentId = NULL
        /\ \A k \in RootKeys :
              /\ cache[k].defined
              /\ Len(cache[k].pages[1].data) > 1
              /\ cache[k].pages[1].data[1] = CachedComment(TempId(s), NULL, 0)

\* data new differs from data old in nothing but the repliesCount of comment id
SameButCount(old, new, id) ==
    /\ new.defined = old.defined
    /\ new.pageParams = old.pageParams
    /\ Len(new.pages) = Len(old.pages)
    /\ \A i \in 1 .. Len(old.pages) :
          /\ Len(new.pages[i].data) = Len(old.pages[i].data)
          /\ [new.pages[i] EXCEPT !.data = <<>>] = [old.pages[i] EXCEPT !.data = <<>>]
          /\ \A j \in 1 .. Len(old.pages[i].data) :
                LET c == old.pages[i].data[j]
                    d == new.pages[i].data[j]
                IN  IF c.id = id THEN d = [c EXCEPT !.repliesCount = d.repliesCount]
                    ELSE d = c

\* data new differs from data old in nothing but the data of the first page
SameButFirstPageData(old, new) ==
    /\ new.defined = old.defined
    /\ new.pageParams = old.pageParams
    /\ Len(new.pages) = Len(old.pages)
    /\ \A i \in 1 .. Len(old.pages) :
          IF i = 1
          THEN [new.pages[i] EXCEPT !.data = <<>>] = [old.pages[i] EXCEPT !.data = <<>>]
          ELSE new.pages[i] = old.pages[i]

\* C29: the Pending step of a root submission leaves every cached replies
\* list unchanged and changes, in each cached root query, only the data of the
\* first page; the Pending step of a reply to P leaves the replies lists of
\* the other parents unchanged and changes nothing in the cached root pages
\* but P's repliesCount
C29_PendingStepFrame ==
    [][ \A s \in Subs :
           PendingStep(s) =>
              IF subs[s].parentId = NULL
              THEN /\ \A k \in ReplyKeys : cache'[k] = cache[k]
                   /\ \A k \in RootKeys : SameButFirstPageData(cache[k], cache'[k])
              ELSE /\ \A k \in ReplyKeys \ {RepliesKey(subs[s].parentId)} :
                         cache'[k] = cache[k]
                   /\ \A k \in RootKeys :
                         SameButCount(cache[k], cache'[k], subs[s].parentId) ]_vars

\* C21: when a single reply submission fails, and refetches of the cached
\* root queries may complete at any point between its Pending step and its
\* rollback, after the rollback the parent's repliesCount in every cached
\* root page is the value it would have had without the submission
C21_RollbackNeverLowersFetchedCount ==
    /\ subs[1].state = "rolledback"
    /\ subs[1].parentId # NULL
    => \A k \in RootKeys : \A c \in CachedCopies(cache[k], subs[1].parentId) :
          c.repliesCount = ServerComment(c.id).repliesCount

\* C24: when a submission is Committed, the invalidated queries include every
\* cached root query and, for a reply to P, P's replies list and every cached
\* replies list of an ancestor in which P appears with its repliesCount
C24_CommitInvalidatesAffectedQueries ==
    \A s \in Subs :
        subs[s].state = "committed" =>
            /\ \A k \in RootKeys : cache[k].defined => k \in subs[s].invalidated
            /\ subs[s].parentId # NULL =>
                  /\ RepliesKey(subs[s].parentId) \in subs[s].invalidated
                  /\ \A k \in ReplyKeys :
                        CachedCopies(cache[k], subs[s].parentId) # {}
                           => k \in subs[s].invalidated

\* C25: during the whole life of one successful reply to P with no other
\* writer (Pending, Committed, until the refetch lands), P's repliesCount in a
\* cached page is never more than its value before the submission plus one
C25_CountAtMostOneAbove ==
    /\ subs[1].state \in {"pending", "committed"}
    /\ subs[1].parentId # NULL
    => \A k \in Keys : \A c \in CachedCopies(cache[k], subs[1].parentId) :
          c.repliesCount <= ServerComment(c.id).repliesCount + 1

\* C30: after any interleaving of Pending steps, commits, rollbacks and
\* refetches, the repliesCount of every comment in every cached page is
\* greater than or equal to zero
C30_RepliesCountNeverNegative ==
    \A k \in Keys :
        \A i \in 1 .. Len(cache[k].pages) :
            \A j \in 1 .. Len(cache[k].pages[i].data) :
                cache[k].pages[i].data[j].repliesCount >= 0

\* C30 witness: a reply was rolled back after a refetch had already brought
\* its parent's count back to zero, while another submission was committed
C30_Witness ==
    \E s \in Subs, t \in Subs :
        /\ subs[s].state = "rolledback"
        /\ subs[s].clamped
        /\ subs[t].state = "committed"
        /\ \A k \in RootKeys : \A c \in CachedCopies(cache[k], subs[s].parentId) :
              c.repliesCount = 0

\* the ids of the comments in the pages of a query
CachedIds(data) ==
    UNION { {data.pages[i].data[j].id : j \in 1 .. Len(data.pages[i].data)}
            : i \in 1 .. Len(data.pages) }

\* every cache entry the Pending step of s put its provisional comment in
\* holds the server's comment and no comment with the temporary id
Reconciled(s) ==
    \A k \in subs[s].wrote :
        /\ ServerId(s) \in CachedIds(cache[k])
        /\ subs[s].tempId \notin CachedIds(cache[k])

\* every cache entry the Pending step of s put its provisional comment in
\* holds no comment with the temporary id, and holds the server's comment
\* unless its last page names a cursor to pages the entry has not loaded
ReconciledInLoadedPages(s) ==
    \A k \in subs[s].wrote :
        /\ subs[s].tempId \notin CachedIds(cache[k])
        /\ \/ ServerId(s) \in CachedIds(cache[k])
           \/ cache[k].pages[Len(cache[k].pages)].nextCursor # NULL

C28_CreateCommentStepOrder ==
    /\ comments # req.before.comments =>
          /\ req.captcha = "success"
          /\ \E c \in comments \ req.before.comments :
                /\ comments = req.before.comments \cup {c}
                /\ c.id = req.commentId
                /\ c.text = sanitizeCommentText(req.author.text)
    /\ blobs # req.before.blobs =>
          \E c \in comments \ req.before.comments : c.id = req.commentId
    /\ attachments # req.before.attachments =>
          /\ \E c \in comments \ req.before.comments : c.id = req.commentId
          /\ \A i \in 1 .. Len(req.files) : Url(req.commentId, i) \in blobs
          /\ Cardinality(attachments \ req.before.attachments) = Len(req.files)
          /\ \A a \in attachments \ req.before.attachments :
                a.commentId = req.commentId

\* C28 witness: a request with files went through every step
C28_Witness ==
    /\ req.pc = "done"
    /\ Len(req.files) > 0
    /\ req.captcha = "success"
    /\ attachments # req.before.attachments
    /\ \A i \in 1 .. Len(req.files) : Url(req.commentId, i) \in blobs

====
